---- MODULE Spec2Model ----
(***************************************************************************)
(* Model of the NRLDC daily-report ingestion command                       *)
(* (src/nrldc/management/commands/nrldc_project.py).                       *)
(*                                                                         *)
(* Texts are sequences of one-character strings, so that strip, replace,   *)
(* lower, "in" and float() are computed on the characters.  A cell of a    *)
(* pandas frame is a record [k, v]: k = "str" with the text v, k = "nan"   *)
(* for the missing value (float NaN), k = "num" for a finite float whose   *)
(* decimal numeral is v, k = "none" for Python's None.                     *)
(***************************************************************************)
EXTENDS Integers, Sequences, FiniteSets, TLC

VARIABLES
    fn,     \* harness: the pure method applied ("" in the run specifications)
    inp,    \* harness: its argument
    out,    \* harness: its result
    done,   \* harness: whether the method has been applied
    clock,      \* the calendar date (datetime.date.today())
    store2A,    \* rows of Table2AData
    store2C,    \* rows of Table2CData
    disk,       \* files written under downloads/
    net,        \* HTTP requests sent, with what came back
    pc,         \* where the running invocation of handle stands ("idle": none)
    loc,        \* the locals of the running invocation
    runs        \* one summary per invocation of handle, the last the latest

hvars == <<fn, inp, out, done>>

pvars == <<clock, store2A, store2C, disk, net, pc, loc, runs>>

vars == <<fn, inp, out, done, clock, store2A, store2C, disk, net, pc, loc, runs>>

----------------------------------------------------------------------------
(* Python values *)

None == [k |-> "none", v |-> <<>>]
NaN == [k |-> "nan", v |-> <<>>]
Str(t) == [k |-> "str", v |-> t]
Num(t) == [k |-> "num", v |-> t]
Pending == [k |-> "pending", v |-> <<>>]

Range(s) == {s[i] : i \in DOMAIN s}

----------------------------------------------------------------------------
(* str methods *)

IsSpace(c) == c \in {" ", "\n", "\r", "\t"}

RECURSIVE LStrip(_)
LStrip(s) == IF s # <<>> /\ IsSpace(Head(s)) THEN LStrip(Tail(s)) ELSE s

RECURSIVE RStrip(_)
RStrip(s) ==
    IF s # <<>> /\ IsSpace(s[Len(s)]) THEN RStrip(SubSeq(s, 1, Len(s) - 1)) ELSE s

\* str.strip()
Strip(s) == RStrip(LStrip(s))

IsComma(c) == c = ","
IsNotComma(c) == ~IsComma(c)

\* str.replace(',', '')
RemoveCommas(s) == SelectSeq(s, IsNotComma)

LowerChar(c) ==
    CASE c = "N" -> "n"
      [] c = "A" -> "a"
      [] c = "U" -> "u"
      [] c = "L" -> "l"
      [] c = "I" -> "i"
      [] c = "F" -> "f"
      [] OTHER -> c

\* str.lower()
Lower(s) == [i \in DOMAIN s |-> LowerChar(s[i])]

----------------------------------------------------------------------------
(* float() *)

Digits == {"0", "1", "2", "3", "4", "5", "6", "7", "8", "9"}

IsDigit(c) == c \in Digits
IsDot(c) == c = "."

\* A decimal numeral without exponent: digits with at most one point and at
\* least one digit.
IsDecimal(b) ==
    /\ b # <<>>
    /\ \A i \in DOMAIN b : IsDigit(b[i]) \/ IsDot(b[i])
    /\ Len(SelectSeq(b, IsDot)) <= 1
    /\ Len(SelectSeq(b, IsDigit)) >= 1

PointAt(b) == IF \E i \in DOMAIN b : IsDot(b[i])
              THEN CHOOSE i \in DOMAIN b : IsDot(b[i])
              ELSE Len(b) + 1

RECURSIVE DropLeadingZeros(_)
DropLeadingZeros(d) ==
    IF d # <<>> /\ Head(d) = "0" THEN DropLeadingZeros(Tail(d)) ELSE d

RECURSIVE DropTrailingZeros(_)
DropTrailingZeros(d) ==
    IF d # <<>> /\ d[Len(d)] = "0"
    THEN DropTrailingZeros(SubSeq(d, 1, Len(d) - 1))
    ELSE d

\* The numeral of the float a decimal text denotes: integer part without
\* leading zeros ("0" when empty), fraction without trailing zeros.
Canon(neg, b) ==
    LET p == PointAt(b)
        ip == DropLeadingZeros(SubSeq(b, 1, p - 1))
        fp == DropTrailingZeros(SubSeq(b, p + 1, Len(b)))
    IN (IF neg THEN <<"-">> ELSE <<>>)
       \o (IF ip = <<>> THEN <<"0">> ELSE ip)
       \o (IF fp = <<>> THEN <<>> ELSE <<".">> \o fp)

\* float(text): surrounding whitespace ignored, optional sign, then "nan",
\* "inf", "infinity" in any case or a decimal numeral; ValueError otherwise.
\* (Exponents and digit-group underscores are outside the modelled alphabet.)
FloatOfText(t) ==
    LET s == Strip(t)
        signed == s # <<>> /\ Head(s) \in {"-", "+"}
        neg == s # <<>> /\ Head(s) = "-"
        b == IF signed THEN Tail(s) ELSE s
    IN IF Lower(b) = <<"n", "a", "n">> THEN [raised |-> FALSE, val |-> NaN]
       ELSE IF Lower(b) \in {<<"i", "n", "f">>,
                             <<"i", "n", "f", "i", "n", "i", "t", "y">>}
            THEN [raised |-> FALSE,
                  val |-> [k |-> "inf", v |-> IF neg THEN <<"-">> ELSE <<>>]]
       ELSE IF IsDecimal(b) THEN [raised |-> FALSE, val |-> Num(Canon(neg, b))]
       ELSE [raised |-> TRUE, val |-> None]

\* float(value): TypeError for None, the value itself for a float.
PyFloat(value) ==
    CASE value.k = "str" -> FloatOfText(value.v)
      [] value.k = "none" -> [raised |-> TRUE, val |-> None]
      [] OTHER -> [raised |-> FALSE, val |-> value]

----------------------------------------------------------------------------
(* Command._safe_float, Command._safe_string *)

AbsentWords == {<<"n", "/", "a">>, <<"-">>, <<"n", "u", "l", "l">>, <<"n", "a", "n">>}

HasColon(s) == ":" \in Range(s)

safe_float_try(value) ==
    LET r == PyFloat(value) IN IF r.raised THEN None ELSE r.val

safe_float(value) ==
    IF value.k = "str"
    THEN LET s1 == Strip(value.v) IN
         IF HasColon(s1) THEN None
         ELSE LET s2 == RemoveCommas(s1) IN
              IF s2 = <<>> \/ Lower(s2) \in AbsentWords THEN None
              ELSE safe_float_try(Str(s2))
    ELSE safe_float_try(value)

\* pd.isna(value)
IsNa(value) == value.k \in {"nan", "none"}

\* str(value) of a float is its numeral; "inf"/"nan" texts for the others
PyStr(value) ==
    CASE value.k = "str" -> value.v
      [] value.k = "num" -> value.v
      [] value.k = "nan" -> <<"n", "a", "n">>
      [] value.k = "inf" -> value.v \o <<"i", "n", "f">>
      [] OTHER -> <<"N", "o", "n", "e">>

safe_string(value) ==
    IF IsNa(value) \/ value = None THEN None ELSE Str(Strip(PyStr(value)))

----------------------------------------------------------------------------
(* pandas frames.  A frame is [index, columns, rows]: index the row labels  *)
(* (0-based integers), columns the column names (texts; the integer label   *)
(* i of a header-less frame is the one-symbol text IntLabel(i)), rows the   *)
(* rows of cells, each as long as columns.  Positions (iloc) are 0-based in *)
(* the source and 1-based here: iloc position p is rows[p + 1].             *)

IntLabel(i) == <<"#" \o ToString(i)>>

RangeLabels(w) == [i \in 1..w |-> IntLabel(i - 1)]

Frame(index, columns, rows) == [index |-> index, columns |-> columns, rows |-> rows]

\* pd.DataFrame()
EmptyFrame == Frame(<<>>, <<>>, <<>>)

FrameLen(df) == Len(df.rows)

FrameWidth(df) == Len(df.columns)

Max(a, b) == IF a >= b THEN a ELSE b

Min(a, b) == IF a <= b THEN a ELSE b

\* a row widened to w cells with missing values
PadRow(row, w) == [i \in 1..w |-> IF i <= Len(row) THEN row[i] ELSE NaN]

\* a page table as tabula returns it (header=None: integer column labels)
TableFrame(rows) ==
    LET w == IF rows = <<>> THEN 0 ELSE Len(rows[1])
    IN Frame([i \in 1..Len(rows) |-> i - 1], RangeLabels(w), rows)

\* pd.concat([a, b], ignore_index=True) of frames with integer column labels:
\* the columns are the union, cells of a missing column are NaN, the index
\* is renumbered
ConcatFrames(a, b) ==
    LET w == Max(FrameWidth(a), FrameWidth(b))
        rows == [i \in 1..FrameLen(a) |-> PadRow(a.rows[i], w)]
                \o [i \in 1..FrameLen(b) |-> PadRow(b.rows[i], w)]
    IN Frame([i \in 1..Len(rows) |-> i - 1], RangeLabels(w), rows)

RECURSIVE ConcatAll(_, _)
ConcatAll(acc, tables) ==
    IF tables = <<>> THEN acc
    ELSE ConcatAll(ConcatFrames(acc, TableFrame(Head(tables))), Tail(tables))

RowAllNa(row) == \A i \in DOMAIN row : IsNa(row[i])

\* the elements of a finite set of positions in increasing order
RECURSIVE Ascending(_)
Ascending(S) ==
    IF S = {} THEN <<>>
    ELSE LET m == CHOOSE x \in S : \A y \in S : x <= y
         IN <<m>> \o Ascending(S \ {m})

\* df.dropna(axis=0, how='all'): the rows keep their labels
DropNaRows(df) ==
    LET keep == Ascending({i \in DOMAIN df.rows : ~RowAllNa(df.rows[i])})
    IN Frame([j \in DOMAIN keep |-> df.index[keep[j]]],
             df.columns,
             [j \in DOMAIN keep |-> df.rows[keep[j]]])

\* the columns at the positions keep, in that order
SelectColumns(df, keep) ==
    Frame(df.index,
          [j \in DOMAIN keep |-> df.columns[keep[j]]],
          [i \in DOMAIN df.rows |-> [j \in DOMAIN keep |-> df.rows[i][keep[j]]]])

\* df.dropna(axis=1, how='all')
DropNaCols(df) ==
    SelectColumns(df, Ascending({c \in DOMAIN df.columns :
                                    \E i \in DOMAIN df.rows : ~IsNa(df.rows[i][c])}))

\* df.iloc[a:b] with 0-based a, b (Python slice: clipped to the frame)
ILocSlice(df, a, b) ==
    LET lo == Min(a, FrameLen(df)) + 1
        hi == Min(b, FrameLen(df))
    IN Frame(SubSeq(df.index, lo, hi), df.columns, SubSeq(df.rows, lo, hi))

\* .reset_index(drop=True)
ResetIndex(df) == Frame([i \in 1..FrameLen(df) |-> i - 1], df.columns, df.rows)

\* df.loc[:, ~df.columns.duplicated()]: the first column of each name
DropDuplicatedColumns(df) ==
    SelectColumns(df, Ascending({c \in DOMAIN df.columns :
                                    \A d \in 1..(c - 1) : df.columns[d] # df.columns[c]}))

WithColumns(df, names) == Frame(df.index, names, df.rows)

----------------------------------------------------------------------------
(* Command.extract_subtable_by_markers                                      *)
(*                                                                          *)
(* A marker pattern is identified by the symbol it matches: a text matches  *)
(* the pattern iff it contains that symbol (the symbol stands for a         *)
(* substring the regular expression matches, in any letter case).           *)

START_2A == "2(A) State's Load Deails"
END_2A == "2(B) State Demand Met (Peak and off-Peak Hrs)"
START_2C == "2(C) State's Demand Met in MWs"
END_2C == "3(A) StateEntities Generation:"
NO_MARKER == ""

\* cell.astype(str).str.strip().str.contains(marker, regex=True, case=False)
CellContains(cell, marker) == marker \in Range(Strip(PyStr(cell)))

RowContains(row, marker) == \E i \in DOMAIN row : CellContains(row[i], marker)

MinOf(S) == CHOOSE x \in S : \A y \in S : x <= y

\* lines 38-41: iterrows() yields (label, row); start_idx is the LABEL of the
\* first row with a matching cell.  -1 stands for None.
StartIdx(df, start_marker) ==
    LET hits == {p \in DOMAIN df.rows : RowContains(df.rows[p], start_marker)}
    IN IF hits = {} THEN -1 ELSE df.index[MinOf(hits)]

\* lines 48-52: positions start_idx + 1 .. len(df) - 1 are read with iloc.
\* -1 stands for None.
EndIdx(df, start_idx, end_marker) ==
    LET hits == {i \in (start_idx + 1)..(FrameLen(df) - 1) :
                    RowContains(df.rows[i + 1], end_marker)}
    IN IF end_marker = NO_MARKER \/ hits = {} THEN -1 ELSE MinOf(hits)

\* lines 55-58: df.iloc[start_idx:end_idx] or df.iloc[start_idx:], re-indexed
RawSubDf(df, start_idx, end_idx) ==
    ResetIndex(ILocSlice(df, start_idx,
                         IF end_idx # -1 THEN end_idx ELSE FrameLen(df)))

FixedColumns2A ==
    << <<"State">>, <<"Thermal">>, <<"Hydro">>, <<"Gas/Naptha/Diesel">>,
       <<"Solar">>, <<"Wind">>, <<"Others(Biomass/Co-gen", " ", "etc.)">>,
       <<"Total">>,
       <<"Drawal", " ", "Sch", " ", "(Net", " ", "MU)">>,
       <<"Act", " ", "Drawal", " ", "(Net", " ", "MU)">>,
       <<"UI", " ", "(Net", " ", "MU)">>,
       <<"Requirement", " ", "(Net", " ", "MU)">>,
       <<"Shortage", " ", "(Net", " ", "MU)">>,
       <<"Consumption", " ", "(Net", " ", "MU)">> >>

FixedColumns2C ==
    << <<"State">>,
       <<"Maximum", " ", "Demand", " ", "Met", " ", "of", " ", "the", " ", "day">>,
       <<"Time">>,
       <<"Shortage", " ", "during", " ", "maximum", " ", "demand">>,
       <<"Requirement", " ", "at", " ", "maximum", " ", "demand">>,
       <<"Maximum", " ", "requirement", " ", "of", " ", "the", " ", "day">>,
       <<"Time.1">>,
       <<"Shortage", " ", "during", " ", "maximum", " ", "requirement">>,
       <<"Demand", " ", "Met", " ", "at", " ", "maximum", " ", "Requirement">>,
       <<"Min", " ", "Demand", " ", "Met">>,
       <<"Time.2">>, <<"ACE_MAX">>, <<"ACE_MIN">>, <<"Time.3">>, <<"Time.4">> >>

\* str.replace('\n', ' ', regex=False)
ReplaceNewline(s) == [i \in DOMAIN s |-> IF s[i] = "\n" THEN " " ELSE s[i]]

\* lines 69-70: astype(str) turns a missing cell into the text "nan", so the
\* trailing fillna('') changes nothing
HeaderText(cell) == Strip(ReplaceNewline(PyStr(cell)))

StartsWith(b, t) == Len(t) <= Len(b) /\ SubSeq(b, 1, Len(t)) = t

\* lines 110-122: one column of the generic two-row merge (idx is 0-based)
GenericName(top, bottom, idx) ==
    LET t_col == Strip(top)
        b_col == Strip(bottom)
    IN IF t_col = <<>> /\ b_col = <<>> THEN <<"Unnamed_" \o ToString(idx)>>
       ELSE IF b_col = <<>> THEN t_col
       ELSE IF t_col = <<>> THEN b_col
       ELSE IF ~StartsWith(b_col, t_col) THEN Strip(t_col \o <<" ">> \o b_col)
       ELSE b_col

\* lines 65-126: the column names before reconciliation; `named` is FALSE
\* for new_columns = None (unsupported header_row_count)
NewColumns(headers_df, header_row_count, debug_table_name) ==
    LET w == FrameWidth(headers_df) IN
    IF header_row_count = 1
    THEN [named |-> TRUE,
          names |-> [c \in 1..w |-> Strip(PyStr(headers_df.rows[1][c]))]]
    ELSE IF header_row_count = 2
    THEN IF debug_table_name = "Table 2(A)"
         THEN [named |-> TRUE, names |-> FixedColumns2A]
         ELSE IF debug_table_name = "Table 2(C)"
         THEN [named |-> TRUE, names |-> FixedColumns2C]
         ELSE [named |-> TRUE,
               names |-> [c \in 1..w |->
                            GenericName(HeaderText(headers_df.rows[1][c]),
                                        HeaderText(headers_df.rows[2][c]),
                                        c - 1)]]
    ELSE [named |-> FALSE, names |-> <<>>]

\* variant of ReconcileColumns that cuts but never pads
ReconcileColumns_NoPad(new_columns, expected_data_cols) ==
    SubSeq(new_columns, 1, Min(Len(new_columns), expected_data_cols))

\* lines 129-133: pad with Unnamed_Col_{i} or truncate to the data width
ReconcileColumns(new_columns, expected_data_cols) ==
    IF Len(new_columns) < expected_data_cols
    THEN new_columns
         \o [j \in 1..(expected_data_cols - Len(new_columns)) |->
                <<"Unnamed_Col_" \o ToString(Len(new_columns) + j - 1)>>]
    ELSE IF Len(new_columns) > expected_data_cols
    THEN SubSeq(new_columns, 1, expected_data_cols)
    ELSE new_columns

RECURSIVE SpaceRunLen(_)
SpaceRunLen(s) ==
    IF s # <<>> /\ IsSpace(Head(s)) THEN 1 + SpaceRunLen(Tail(s)) ELSE 0

\* str.replace(r'\s*\r\s*', ' ', regex=True): every maximal run of
\* whitespace that holds a carriage return becomes one space
RECURSIVE ReplaceCR(_)
ReplaceCR(s) ==
    IF s = <<>> THEN <<>>
    ELSE IF IsSpace(Head(s))
    THEN LET n == SpaceRunLen(s)
             run == SubSeq(s, 1, n)
         IN (IF "\r" \in Range(run) THEN <<" ">> ELSE run)
            \o ReplaceCR(SubSeq(s, n + 1, Len(s)))
    ELSE <<Head(s)>> \o ReplaceCR(Tail(s))

\* lines 138-139
CleanColumnName(name) == Strip(ReplaceCR(Strip(name)))

\* lines 135-142: the data rows under the reconciled names
Materialize(raw_sub_df, data_start, new_columns) ==
    LET sub_df_data == WithColumns(ILocSlice(raw_sub_df, data_start, FrameLen(raw_sub_df)),
                                   new_columns)
        deduped == DropDuplicatedColumns(sub_df_data)
        cleaned == WithColumns(deduped,
                               [c \in DOMAIN deduped.columns |->
                                   CleanColumnName(deduped.columns[c])])
    IN DropNaCols(DropNaRows(cleaned))

\* variant of ExtractLocals that returns None for a span too short for its
\* header rows
ExtractLocals_ShortIsNone(df, start_marker, end_marker, header_row_count, debug_table_name) ==
    LET start_idx == StartIdx(df, start_marker)
        end_idx == EndIdx(df, start_idx, end_marker)
        raw_sub_df == RawSubDf(df, start_idx, end_idx)
        data_start == 1 + header_row_count
        with_header == header_row_count > 0 /\ FrameLen(raw_sub_df) >= data_start
        nc == NewColumns(ILocSlice(raw_sub_df, 1, data_start),
                         header_row_count, debug_table_name)
        new_columns == ReconcileColumns(nc.names, FrameWidth(raw_sub_df))
    IN IF start_idx = -1 \/ ~with_header
       THEN [found |-> FALSE, start_idx |-> -1, end_idx |-> -1,
             raw_sub_df |-> EmptyFrame, named |-> FALSE, raw_columns |-> <<>>,
             new_columns |-> <<>>, table |-> EmptyFrame]
       ELSE [found |-> TRUE, start_idx |-> start_idx, end_idx |-> end_idx,
             raw_sub_df |-> raw_sub_df,
             named |-> with_header /\ nc.named,
             raw_columns |-> IF with_header /\ nc.named THEN nc.names ELSE <<>>,
             new_columns |-> IF with_header /\ nc.named THEN new_columns ELSE <<>>,
             table |->
                IF with_header
                THEN IF nc.named
                     THEN Materialize(raw_sub_df, data_start, new_columns)
                     ELSE DropNaCols(ILocSlice(raw_sub_df, data_start,
                                               FrameLen(raw_sub_df)))
                ELSE DropNaCols(ILocSlice(raw_sub_df, 1, FrameLen(raw_sub_df)))]

\* The locals of extract_subtable_by_markers at its return.  found = FALSE
\* is the return of None at line 45.
ExtractLocals(df, start_marker, end_marker, header_row_count, debug_table_name) ==
    LET start_idx == StartIdx(df, start_marker)
        end_idx == EndIdx(df, start_idx, end_marker)
        raw_sub_df == RawSubDf(df, start_idx, end_idx)
        data_start == 1 + header_row_count
        with_header == header_row_count > 0 /\ FrameLen(raw_sub_df) >= data_start
        nc == NewColumns(ILocSlice(raw_sub_df, 1, data_start),
                         header_row_count, debug_table_name)
        new_columns == ReconcileColumns(nc.names, FrameWidth(raw_sub_df))
    IN IF start_idx = -1
       THEN [found |-> FALSE, start_idx |-> -1, end_idx |-> -1,
             raw_sub_df |-> EmptyFrame, named |-> FALSE, raw_columns |-> <<>>,
             new_columns |-> <<>>, table |-> EmptyFrame]
       ELSE [found |-> TRUE, start_idx |-> start_idx, end_idx |-> end_idx,
             raw_sub_df |-> raw_sub_df,
             named |-> with_header /\ nc.named,
             raw_columns |-> IF with_header /\ nc.named THEN nc.names ELSE <<>>,
             new_columns |-> IF with_header /\ nc.named THEN new_columns ELSE <<>>,
             table |->
                IF with_header
                THEN IF nc.named
                     THEN Materialize(raw_sub_df, data_start, new_columns)
                     ELSE DropNaCols(ILocSlice(raw_sub_df, data_start,
                                               FrameLen(raw_sub_df)))
                ELSE DropNaCols(ILocSlice(raw_sub_df, 1, FrameLen(raw_sub_df)))]

----------------------------------------------------------------------------
(* Command.extract_tables_from_pdf, lines 194-198: the unified grid         *)

PipelineGrid(tables) == DropNaRows(ConcatAll(EmptyFrame, tables))

\* lines 211-226: raw column name -> model field
column_mapping_2A ==
    << <<FixedColumns2A[1], <<"state">>>>,
       <<FixedColumns2A[2], <<"thermal">>>>,
       <<FixedColumns2A[3], <<"hydro">>>>,
       <<FixedColumns2A[4], <<"gas_naptha_diesel">>>>,
       <<FixedColumns2A[5], <<"solar">>>>,
       <<FixedColumns2A[6], <<"wind">>>>,
       <<FixedColumns2A[7], <<"other_biomass_co_gen_etc">>>>,
       <<FixedColumns2A[8], <<"total">>>>,
       <<FixedColumns2A[9], <<"drawal_sch">>>>,
       <<FixedColumns2A[10], <<"act_drawal">>>>,
       <<FixedColumns2A[11], <<"ui">>>>,
       <<FixedColumns2A[12], <<"requirement">>>>,
       <<FixedColumns2A[13], <<"shortage">>>>,
       <<FixedColumns2A[14], <<"consumption">>>> >>

\* lines 280-296
column_mapping_2C ==
    << <<FixedColumns2C[1], <<"state">>>>,
       <<FixedColumns2C[2], <<"max_demand_met_of_the_day">>>>,
       <<FixedColumns2C[3], <<"time_max_demand_met">>>>,
       <<FixedColumns2C[4], <<"shortage_during_max_demand">>>>,
       <<FixedColumns2C[5], <<"requirement_at_max_demand">>>>,
       <<FixedColumns2C[6], <<"max_requirement_of_the_day">>>>,
       <<FixedColumns2C[7], <<"time_max_requirement">>>>,
       <<FixedColumns2C[8], <<"shortage_during_max_requirement">>>>,
       <<FixedColumns2C[9], <<"demand_met_at_max_requirement">>>>,
       <<FixedColumns2C[10], <<"min_demand_met">>>>,
       <<FixedColumns2C[11], <<"time_min_demand_met">>>>,
       <<FixedColumns2C[12], <<"ace_max">>>>,
       <<FixedColumns2C[13], <<"time_ace_max">>>>,
       <<FixedColumns2C[14], <<"ace_min">>>>,
       <<FixedColumns2C[15], <<"time_ace_min">>>> >>

\* df.rename(columns=mapping): a mapped name is replaced, any other one kept
RenameColumn(mapping, name) ==
    IF \E m \in DOMAIN mapping : mapping[m][1] = name
    THEN mapping[CHOOSE m \in DOMAIN mapping : mapping[m][1] = name][2]
    ELSE name

\* lines 227-228 and 298-299: rename, then keep the mapped fields that are
\* present, in the mapping's order
RenameAndFilter(sub, mapping) ==
    LET renamed == WithColumns(sub, [c \in DOMAIN sub.columns |->
                                        RenameColumn(mapping, sub.columns[c])])
        present == Ascending({m \in DOMAIN mapping :
                                 mapping[m][2] \in Range(renamed.columns)})
        pos == [j \in DOMAIN present |->
                   CHOOSE c \in DOMAIN renamed.columns :
                       /\ renamed.columns[c] = mapping[present[j]][2]
                       /\ \A d \in 1..(c - 1) : renamed.columns[d] # renamed.columns[c]]
    IN SelectColumns(renamed, pos)

\* df.to_dict(orient='records'), and the row_data of df.iterrows(): one
\* mapping per row from column name to the cell as it stands in the frame
ToDictRecords(df) ==
    [i \in DOMAIN df.rows |->
        [name \in Range(df.columns) |->
            df.rows[i][CHOOSE c \in DOMAIN df.columns : df.columns[c] = name]]]

\* row_data.get(field)
Get(row_data, field) == IF field \in DOMAIN row_data THEN row_data[field] ELSE None

\* lines 245-259: the defaults of one Table 2(A) row, every field a float
FloatFields2A ==
    {<<"thermal">>, <<"hydro">>, <<"gas_naptha_diesel">>, <<"solar">>, <<"wind">>,
     <<"other_biomass_co_gen_etc">>, <<"total">>, <<"drawal_sch">>,
     <<"act_drawal">>, <<"ui">>, <<"requirement">>, <<"shortage">>,
     <<"consumption">>}

\* lines 315-330: the defaults of one Table 2(C) row
FloatFields2C ==
    {<<"max_demand_met_of_the_day">>, <<"shortage_during_max_demand">>,
     <<"requirement_at_max_demand">>, <<"max_requirement_of_the_day">>,
     <<"shortage_during_max_requirement">>, <<"demand_met_at_max_requirement">>,
     <<"min_demand_met">>, <<"ace_max">>, <<"ace_min">>}

StringFields2C ==
    {<<"time_max_demand_met">>, <<"time_max_requirement">>,
     <<"time_min_demand_met">>, <<"time_ace_max">>, <<"time_ace_min">>}

Defaults2A(row_data) ==
    [f \in FloatFields2A |-> safe_float(Get(row_data, f))]

Defaults2C(row_data) ==
    [f \in FloatFields2C \cup StringFields2C |->
        IF f \in FloatFields2C THEN safe_float(Get(row_data, f))
        ELSE safe_string(Get(row_data, f))]

\* lines 244 and 314
StateKey(row_data) == safe_string(Get(row_data, <<"state">>))

----------------------------------------------------------------------------
(* Persistence.  A table is a set of rows [id, report_date, state, values]; *)
(* the command addresses rows by the lookup (report_date, state).           *)

NextId(table) == Cardinality(table) + 1

\* Model.objects.filter(report_date=d).exists()
ExistsForDate(table, d) == \E r \in table : r.report_date = d

\* Model.objects.create(report_date=d, state=state, **defaults)
Create(table, d, state, defaults) ==
    [raised |-> FALSE,
     table |-> table \cup {[id |-> NextId(table), report_date |-> d,
                            state |-> state, values |-> defaults]}]

\* Model.objects.update_or_create(report_date=d, state=state, defaults=...):
\* the one matching row is updated, a row is created when none matches, and
\* MultipleObjectsReturned is raised when several match
UpdateOrCreate(table, d, state, defaults) ==
    LET hit == {r \in table : r.report_date = d /\ r.state = state}
    IN IF hit = {} THEN Create(table, d, state, defaults)
       ELSE IF Cardinality(hit) = 1
       THEN [raised |-> FALSE,
             table |-> (table \ hit) \cup {[r EXCEPT !.values = defaults] : r \in hit}]
       ELSE [raised |-> TRUE, table |-> table]

\* variant of SaveRow2A that inserts without the lookup
SaveRow2A_AlwaysCreate(table, report_date, row_data) ==
    Create(table, report_date, StateKey(row_data), Defaults2A(row_data))

\* lines 242-260
SaveRow2A(table, report_date, row_data) ==
    UpdateOrCreate(table, report_date, StateKey(row_data), Defaults2A(row_data))

\* lines 312-331
SaveRow2C(table, report_date, row_data) ==
    UpdateOrCreate(table, report_date, StateKey(row_data), Defaults2C(row_data))

\* variant of ReportExists that looks at Table 2(A) only
ReportExists_Only2A(table2A, table2C, today) == ExistsForDate(table2A, today)

\* lines 360-361
ReportExists(table2A, table2C, today) ==
    ExistsForDate(table2A, today) \/ ExistsForDate(table2C, today)

----------------------------------------------------------------------------
(* The environment of a run: what tabula.read_pdf may return for the PDF.   *)

MaxRuns == 2
MaxDays == 2

OneSymbol(x) == Str(<<x>>)

TitleRow(marker) == <<OneSymbol(marker), NaN, NaN>>
HeaderRow == <<OneSymbol("h"), OneSymbol("h"), OneSymbol("h")>>
EmptyRow == <<NaN, NaN, NaN>>

RowDL == <<Str(<<"D", "L">>), Str(<<"1", ",", "2">>), NaN>>
RowUP == <<Str(<<" ", "U", "P">>), Num(<<"5">>), Str(<<"-">>)>>
RowDL2 == <<Str(<<"D", "L">>), Str(<<"7">>), Str(<<"1">>)>>
RowC == <<Str(<<"D", "L">>), Str(<<"2", "1">>), Str(<<"1", ":", "2">>)>>

PageA == <<TitleRow(START_2A), HeaderRow, HeaderRow, RowDL, RowUP>>
PageADup == <<TitleRow(START_2A), HeaderRow, HeaderRow, RowDL, RowDL2>>
PageAShifted == <<EmptyRow, TitleRow(START_2A), HeaderRow, HeaderRow, RowDL, RowUP>>
PageB == <<TitleRow(END_2A), <<OneSymbol("x"), NaN, NaN>> >>
PageC == <<TitleRow(START_2C), HeaderRow, HeaderRow, RowC, TitleRow(END_2C)>>
PageNarrow == << <<OneSymbol("x")>> >>

PdfSamples ==
    { <<PageA, PageB, PageC>>,
      <<PageADup, PageB>>,
      <<PageNarrow, PageC>>,
      <<PageNarrow, PageB>>,
      <<PageAShifted, PageB, PageC>> }

----------------------------------------------------------------------------
(* Command.handle and Command.extract_tables_from_pdf as steps of one       *)
(* invocation; invocations follow one another.                              *)

LocIdle == [today |-> 0, grid |-> EmptyFrame, pending |-> <<>>, json |-> <<>>]

HarnessOff == fn = "" /\ inp = Pending /\ out = Pending /\ done = FALSE

ProgramOff ==
    /\ clock = 1 /\ store2A = {} /\ store2C = {} /\ disk = <<>> /\ net = <<>>
    /\ pc = "idle" /\ loc = LocIdle /\ runs = <<>>

Init == HarnessOff /\ ProgramOff

ThisRun == Len(runs)

Finish(outcome) ==
    /\ runs' = [runs EXCEPT ![ThisRun].outcome = outcome]
    /\ pc' = "idle"
    /\ loc' = LocIdle

\* variant of HandleStart that also skips while another invocation, the one
\* suspended in inp, is in progress
HandleStart_Coordinated ==
    /\ fn = ""
    /\ pc = "idle"
    /\ Len(runs) < MaxRuns
    /\ IF ReportExists(store2A, store2C, clock) \/ inp.run # 0
       THEN /\ runs' = Append(runs, [today |-> clock, outcome |-> "skipped",
                                     calls |-> <<>>])
            /\ UNCHANGED <<pc, loc>>
       ELSE /\ runs' = Append(runs, [today |-> clock, outcome |-> "running",
                                     calls |-> <<>>])
            /\ pc' = "fetch"
            /\ loc' = [LocIdle EXCEPT !.today = clock]
    /\ UNCHANGED <<clock, store2A, store2C, disk, net>>
    /\ UNCHANGED hvars

\* variant of HandleStart without the test of lines 360-363
HandleStart_NeverSkips ==
    /\ fn = ""
    /\ pc = "idle"
    /\ Len(runs) < MaxRuns
    /\ runs' = Append(runs, [today |-> clock, outcome |-> "running", calls |-> <<>>])
    /\ pc' = "fetch"
    /\ loc' = [LocIdle EXCEPT !.today = clock]
    /\ UNCHANGED <<clock, store2A, store2C, disk, net>>
    /\ UNCHANGED hvars

\* lines 355-363: the date is read, and the run returns at once when a row
\* of either table carries it
HandleStart ==
    /\ fn = ""
    /\ pc = "idle"
    /\ Len(runs) < MaxRuns
    /\ IF ReportExists(store2A, store2C, clock)
       THEN /\ runs' = Append(runs, [today |-> clock, outcome |-> "skipped",
                                     calls |-> <<>>])
            /\ UNCHANGED <<pc, loc>>
       ELSE /\ runs' = Append(runs, [today |-> clock, outcome |-> "running",
                                     calls |-> <<>>])
            /\ pc' = "fetch"
            /\ loc' = [LocIdle EXCEPT !.today = clock]
    /\ UNCHANGED <<clock, store2A, store2C, disk, net>>
    /\ UNCHANGED hvars

\* variant of FetchMetadata in which a failed request does not end the run
FetchMetadata_GoesOn ==
    /\ pc = "fetch"
    /\ \E reply \in {"RequestException", "not_json", "no_records", "records"} :
          /\ net' = Append(net, [run |-> ThisRun, request |-> "metadata", reply |-> reply])
          /\ IF reply = "no_records" THEN Finish("no_report")
             ELSE pc' = "download" /\ UNCHANGED <<loc, runs>>
    /\ UNCHANGED <<clock, store2A, store2C, disk>>
    /\ UNCHANGED hvars

\* lines 373-387: the metadata request: a request error or an unparsable
\* body raises CommandError, recordsFiltered = 0 returns
FetchMetadata ==
    /\ pc = "fetch"
    /\ \E reply \in {"RequestException", "not_json", "no_records", "records"} :
          /\ net' = Append(net, [run |-> ThisRun, request |-> "metadata", reply |-> reply])
          /\ CASE reply \in {"RequestException", "not_json"} -> Finish("CommandError")
               [] reply = "no_records" -> Finish("no_report")
               [] OTHER -> pc' = "download" /\ UNCHANGED <<loc, runs>>
    /\ UNCHANGED <<clock, store2A, store2C, disk>>
    /\ UNCHANGED hvars

\* lines 389-410: the output directory is made, then the PDF requested and
\* written; any failure raises CommandError
DownloadPdf ==
    /\ pc = "download"
    /\ \E ok \in BOOLEAN :
          /\ net' = Append(net, [run |-> ThisRun, request |-> "download",
                                 reply |-> IF ok THEN "pdf" ELSE "Exception"])
          /\ IF ok
             THEN /\ disk' = disk \o <<[run |-> ThisRun, name |-> "report_dir", data |-> <<>>],
                                        [run |-> ThisRun, name |-> "report.pdf", data |-> <<>>]>>
                  /\ pc' = "extract"
                  /\ UNCHANGED <<loc, runs>>
             ELSE /\ disk' = Append(disk, [run |-> ThisRun, name |-> "report_dir", data |-> <<>>])
                  /\ Finish("CommandError")
    /\ UNCHANGED <<clock, store2A, store2C>>
    /\ UNCHANGED hvars

\* lines 178-190: tabula raises, or returns no table
ExtractFails ==
    /\ pc = "extract"
    /\ Finish("CommandError")
    /\ UNCHANGED <<clock, store2A, store2C, disk, net>>
    /\ UNCHANGED hvars

\* lines 192-236 and 268-269: the unified grid, Table 2(A) located and its
\* records put under table_2A
ExtractTable2A ==
    /\ pc = "extract"
    /\ \E tables \in PdfSamples :
          LET grid == PipelineGrid(tables)
              sub_2A == ExtractLocals(grid, START_2A, END_2A, 2, "Table 2(A)")
              records == ToDictRecords(RenameAndFilter(sub_2A.table, column_mapping_2A))
          IN loc' = [loc EXCEPT
                        !.grid = grid,
                        !.pending = IF sub_2A.found THEN records ELSE <<>>,
                        !.json = IF sub_2A.found THEN "table_2A" :> records ELSE <<>>]
    /\ pc' = "table2A"
    /\ UNCHANGED <<clock, store2A, store2C, disk, net, runs>>
    /\ UNCHANGED hvars

LogCall(table, row_data, values, saved) ==
    runs' = [runs EXCEPT ![ThisRun].calls =
                Append(@, [table |-> table, state |-> StateKey(row_data),
                           values |-> values, saved |-> saved])]

\* variant of UpsertRow2A in which a failed upsert ends the run
UpsertRow2A_Abort ==
    /\ pc = "table2A"
    /\ loc.pending # <<>>
    /\ \E db_ok \in BOOLEAN :
          LET row_data == Head(loc.pending)
              r == SaveRow2A(store2A, loc.today, row_data)
              saved == db_ok /\ ~r.raised
          IN /\ store2A' = IF saved THEN r.table ELSE store2A
             /\ IF saved
                THEN /\ LogCall("table_2A", row_data, Defaults2A(row_data), saved)
                     /\ loc' = [loc EXCEPT !.pending = Tail(@)]
                     /\ pc' = pc
                ELSE /\ runs' = [runs EXCEPT ![ThisRun].outcome = "CommandError",
                                             ![ThisRun].calls =
                                                Append(@, [table |-> "table_2A",
                                                           state |-> StateKey(row_data),
                                                           values |-> Defaults2A(row_data),
                                                           saved |-> FALSE])]
                     /\ pc' = "idle"
                     /\ loc' = LocIdle
    /\ UNCHANGED <<clock, store2C, disk, net>>
    /\ UNCHANGED hvars

\* lines 238-266: one pass of the loop; an exception of update_or_create is
\* caught and the loop goes on
UpsertRow2A ==
    /\ pc = "table2A"
    /\ loc.pending # <<>>
    /\ \E db_ok \in BOOLEAN :
          LET row_data == Head(loc.pending)
              r == SaveRow2A(store2A, loc.today, row_data)
              saved == db_ok /\ ~r.raised
          IN /\ store2A' = IF saved THEN r.table ELSE store2A
             /\ LogCall("table_2A", row_data, Defaults2A(row_data), saved)
    /\ loc' = [loc EXCEPT !.pending = Tail(@)]
    /\ UNCHANGED <<clock, store2C, disk, net, pc>>
    /\ UNCHANGED hvars

\* variant of ExtractTable2C that ends the run
ExtractTable2C_Abort ==
    /\ pc = "table2A"
    /\ loc.pending = <<>>
    /\ Finish("CommandError")
    /\ UNCHANGED <<clock, store2A, store2C, disk, net>>
    /\ UNCHANGED hvars

\* lines 271-307 and 339-340: Table 2(C) located in the same grid
ExtractTable2C ==
    /\ pc = "table2A"
    /\ loc.pending = <<>>
    /\ LET sub_2C == ExtractLocals(loc.grid, START_2C, END_2C, 2, "Table 2(C)")
           records == ToDictRecords(RenameAndFilter(sub_2C.table, column_mapping_2C))
       IN loc' = [loc EXCEPT
                     !.pending = IF sub_2C.found THEN records ELSE <<>>,
                     !.json = IF sub_2C.found THEN ("table_2C" :> records) @@ @ ELSE @]
    /\ pc' = "table2C"
    /\ UNCHANGED <<clock, store2A, store2C, disk, net, runs>>
    /\ UNCHANGED hvars

\* lines 309-337
UpsertRow2C ==
    /\ pc = "table2C"
    /\ loc.pending # <<>>
    /\ \E db_ok \in BOOLEAN :
          LET row_data == Head(loc.pending)
              r == SaveRow2C(store2C, loc.today, row_data)
              saved == db_ok /\ ~r.raised
          IN /\ store2C' = IF saved THEN r.table ELSE store2C
             /\ LogCall("table_2C", row_data, Defaults2C(row_data), saved)
    /\ loc' = [loc EXCEPT !.pending = Tail(@)]
    /\ UNCHANGED <<clock, store2A, disk, net, pc>>
    /\ UNCHANGED hvars

\* lines 342-348: the combined JSON file, written when a table was found
WriteJson ==
    /\ pc = "table2C"
    /\ loc.pending = <<>>
    /\ disk' = IF DOMAIN loc.json # {}
               THEN Append(disk, [run |-> ThisRun, name |-> "nrdc_report_tables.json",
                                  data |-> loc.json])
               ELSE disk
    /\ Finish("processed")
    /\ UNCHANGED <<clock, store2A, store2C, net>>
    /\ UNCHANGED hvars

\* midnight
Tick ==
    /\ fn = ""
    /\ clock < MaxDays
    /\ clock' = clock + 1
    /\ UNCHANGED <<store2A, store2C, disk, net, pc, loc, runs>>
    /\ UNCHANGED hvars

Next ==
    \/ HandleStart \/ FetchMetadata \/ DownloadPdf \/ ExtractFails
    \/ ExtractTable2A \/ UpsertRow2A \/ ExtractTable2C \/ UpsertRow2C
    \/ WriteJson \/ Tick

Spec == Init /\ [][Next]_vars

----------------------------------------------------------------------------
(* Properties of the runs *)

RunIds == 1..Len(runs)

CallsOf(run, table) == SelectSeq(runs[run].calls, LAMBDA c : c.table = table)

SavedSome(run) == \E c \in DOMAIN runs[run].calls : runs[run].calls[c].saved

JsonFiles == {f \in Range(disk) : f.name = "nrdc_report_tables.json"}

C8_JsonValuesNormalized ==
    \A f \in JsonFiles : \A t \in DOMAIN f.data : \A r \in DOMAIN f.data[t] :
        LET rec == f.data[t][r]
            upserted == IF t = "table_2A" THEN Defaults2A(rec) ELSE Defaults2C(rec)
        IN \A field \in DOMAIN rec :
              rec[field] = IF field = <<"state">> THEN StateKey(rec) ELSE upserted[field]

\* C10: an upsert that fails does not end the run: the run goes on to its
\* end, every record of both tables gets its upsert, and the combined JSON
\* file is written.
C10_RowFailureNonFatal ==
    [][ /\ (pc \in {"table2A", "table2C"} /\ Len(runs'[ThisRun].calls) > Len(runs[ThisRun].calls))
           => /\ pc' = pc
              /\ runs'[ThisRun].outcome = "running"
              /\ loc'.pending = Tail(loc.pending)
        /\ ( /\ pc = "table2C" /\ pc' = "idle"
             /\ \E c \in DOMAIN runs[ThisRun].calls : ~runs[ThisRun].calls[c].saved )
           => /\ runs'[ThisRun].outcome = "processed"
              /\ \A t \in DOMAIN loc.json : Len(CallsOf(ThisRun, t)) = Len(loc.json[t])
              /\ Len(disk') = Len(disk) + 1
              /\ disk'[Len(disk')].data = loc.json ]_vars

\* C10 witness: the first upsert of a run failed, a later one of Table 2(A)
\* and one of Table 2(C) were saved, and the run wrote its JSON file
C10_SavedAfterFailure ==
    \E f \in JsonFiles :
        LET calls == runs[f.run].calls
        IN /\ runs[f.run].outcome = "processed"
           /\ Len(calls) >= 3
           /\ ~calls[1].saved
           /\ \E a \in DOMAIN calls : calls[a].table = "table_2A" /\ calls[a].saved
           /\ \E c \in DOMAIN calls : calls[c].table = "table_2C" /\ calls[c].saved

\* C11: a failed metadata request, a failed download, or a tabula call that
\* raises or returns no table ends the run with CommandError: the run makes
\* no further request, no row of either table is created or updated, and
\* the run writes no combined JSON file.
C11_FatalErrorAborts ==
    /\ \A n \in DOMAIN net :
          net[n].reply \in {"RequestException", "not_json", "Exception"}
          => /\ runs[net[n].run].outcome = "CommandError"
             /\ \A m \in DOMAIN net : m > n => net[m].run # net[n].run
    /\ \A i \in RunIds :
          runs[i].outcome = "CommandError"
          => /\ runs[i].calls = <<>>
             /\ ~ \E f \in JsonFiles : f.run = i

\* C11 witness: one run ended at the metadata request, the next one after
\* the PDF was written, and no table holds a row
C11_TwoAborted ==
    /\ Len(runs) = 2
    /\ runs[1].outcome = "CommandError" /\ runs[2].outcome = "CommandError"
    /\ \E n \in DOMAIN net : net[n].run = 1 /\ net[n].reply = "not_json"
    /\ \E f \in Range(disk) : f.run = 2 /\ f.name = "report.pdf"
    /\ store2A = {} /\ store2C = {}

----------------------------------------------------------------------------
(* Two processes that run the command against the same database.  The      *)
(* steps above are those of the process that is running; the other one is  *)
(* suspended, and inp holds its position, its locals and the place in runs *)
(* of its invocation in progress (0: none).  The operating system may      *)
(* switch between the two at any step.  The summary of the invocation of   *)
(* the running process is kept last in runs, so the run numbers in disk    *)
(* and net are those at the time of writing.                               *)

NoInvocation == [pc |-> "idle", loc |-> LocIdle, run |-> 0]

InitRace ==
    /\ fn = "" /\ inp = NoInvocation /\ out = Pending /\ done = FALSE
    /\ ProgramOff

MoveToEnd(s, k) ==
    [i \in 1..Len(s) |-> IF i < k THEN s[i] ELSE IF i < Len(s) THEN s[i + 1] ELSE s[k]]

\* the running process is suspended and the other one resumed; nothing in
\* lines 355-414 or 238-337 waits for or tells the other process
Switch ==
    /\ fn = ""
    /\ pc # "idle" \/ inp.run # 0
    /\ inp' = [pc |-> pc, loc |-> loc,
               run |-> IF pc = "idle" THEN 0
                       ELSE IF inp.run = 0 THEN Len(runs) ELSE Len(runs) - 1]
    /\ pc' = inp.pc
    /\ loc' = inp.loc
    /\ runs' = IF inp.run = 0 THEN runs ELSE MoveToEnd(runs, inp.run)
    /\ UNCHANGED <<fn, out, done, clock, store2A, store2C, disk, net>>

NextRace == Next \/ Switch

SpecRace == InitRace /\ [][NextRace]_vars

----------------------------------------------------------------------------
(* Harness for _safe_float: every text over Alphabet up to MaxTextLen and   *)
(* the non-string cells.                                                    *)

MaxTextLen == 4

Alphabet == {" ", ",", ":", "-", "1", "2", ".", "n", "a", "N", "/"}

Texts(n) == UNION {[1..k -> Alphabet] : k \in 0..n}

NonStringValues == {None, NaN, Num(<<"1">>), Num(<<"-", "1", ".", "2">>)}

SafeFloatInputs == {Str(t) : t \in Texts(MaxTextLen)} \cup NonStringValues

InitFloat ==
    /\ fn = "_safe_float"
    /\ inp \in SafeFloatInputs
    /\ out = Pending
    /\ done = FALSE
    /\ ProgramOff

ApplySafeFloat ==
    /\ fn = "_safe_float"
    /\ ~done
    /\ out' = safe_float(inp)
    /\ done' = TRUE
    /\ UNCHANGED <<fn, inp>>
    /\ UNCHANGED pvars

\* _safe_float applied to its own result (the stored value read back)
ReapplySafeFloat ==
    /\ fn = "_safe_float"
    /\ done
    /\ inp # out
    /\ inp' = out
    /\ out' = safe_float(out)
    /\ UNCHANGED <<fn, done>>
    /\ UNCHANGED pvars

NextFloat == ApplySafeFloat \/ ReapplySafeFloat

SpecFloat == InitFloat /\ [][NextFloat]_vars

\* C7: _safe_float yields None for every absent input (None, a NaN cell, a
\* text with ':', a text that trimmed and without commas is '', '-', 'n/a',
\* 'null' or 'nan' in any case or fails to parse), the parsed number for any
\* other input, and the same value when applied to its own result.
C7_AbsentInput(x) ==
    \/ x.k \in {"none", "nan"}
    \/ /\ x.k = "str"
       /\ \/ HasColon(x.v)
          \/ LET t == RemoveCommas(Strip(x.v))
             IN t = <<>> \/ Lower(t) \in AbsentWords \/ FloatOfText(t).raised

C7_SafeFloatAbsent ==
    (fn = "_safe_float" /\ done) =>
        /\ C7_AbsentInput(inp) => out = None
        /\ ~C7_AbsentInput(inp) =>
              out = PyFloat(IF inp.k = "str" THEN Str(RemoveCommas(Strip(inp.v)))
                            ELSE inp).val
        /\ inp.k # "str" => safe_float(out) = out

----------------------------------------------------------------------------
(* Harness for extract_subtable_by_markers on the unified grid of a list of *)
(* page tables (lines 194-209).                                             *)

MaxTables == 2
MaxTableRows == 2
MaxGridWidth == 2

\* the page tables with 1..MaxTableRows rows of one width over `cells`
TablesOver(cells) ==
    UNION {[1..n -> [1..w -> cells]] : n \in 1..MaxTableRows, w \in 1..MaxGridWidth}

TableListsOver(cells) ==
    UNION {[1..k -> TablesOver(cells)] : k \in 1..MaxTables}

LocateCells == {NaN, Str(<<START_2A>>), Str(<<END_2A>>), Str(<<"x">>)}

ExtractCall(tables, start, end, hrc, name) ==
    [tables |-> tables, start |-> start, end |-> end, hrc |-> hrc, name |-> name]

InitLocate ==
    /\ fn = "extract_subtable_by_markers"
    /\ inp \in {ExtractCall(t, START_2A, e, 2, "Table 2(A)") :
                    t \in TableListsOver(LocateCells), e \in {END_2A, NO_MARKER}}
    /\ out = Pending
    /\ done = FALSE
    /\ ProgramOff

ApplyExtract ==
    /\ fn = "extract_subtable_by_markers"
    /\ ~done
    /\ out' = ExtractLocals(PipelineGrid(inp.tables), inp.start, inp.end,
                            inp.hrc, inp.name)
    /\ done' = TRUE
    /\ UNCHANGED <<fn, inp>>
    /\ UNCHANGED pvars

NextExtract == ApplyExtract

SpecLocate == InitLocate /\ [][NextExtract]_vars

\* C1: the span located in the unified grid is exactly its rows [i, j): i
\* the position of the first row matching the start marker, j that of the
\* first row after i matching the end marker, or the grid length when there
\* is no end marker or no match; also when empty rows were removed ahead of
\* the marker row.
C1_SpanIsFirstMatch ==
    (fn = "extract_subtable_by_markers" /\ done) =>
        LET grid == PipelineGrid(inp.tables)
            starts == {p \in DOMAIN grid.rows : RowContains(grid.rows[p], inp.start)}
            i == MinOf(starts)
            ends == {p \in DOMAIN grid.rows :
                        p > i /\ inp.end # NO_MARKER /\ RowContains(grid.rows[p], inp.end)}
            j == IF ends = {} THEN FrameLen(grid) + 1 ELSE MinOf(ends)
        IN /\ out.found <=> starts # {}
           /\ out.found => out.raw_sub_df.rows = SubSeq(grid.rows, i, j - 1)

----------------------------------------------------------------------------
(* Harness for the header branch (lines 62-136): one page of every width up *)
(* to HeaderMaxWidth, holding the title row, two header rows, two data rows *)
(* and the end row.                                                         *)

HeaderMaxWidth == 17

Filled(w, first, rest) == [c \in 1..w |-> IF c = 1 THEN first ELSE rest]

HeaderCells == {NaN, Str(<<"h">>), Str(<<" ">>), Str(<<"h", "g">>)}

HeaderPage(w, start, end, h1, h2) ==
    << Filled(w, Str(<<start>>), NaN),
       Filled(w, h1, h1),
       Filled(w, h2, h2),
       Filled(w, Str(<<"D", "L">>), Str(<<"1">>)),
       Filled(w, Str(<<"U", "P">>), Str(<<"2">>)),
       Filled(w, Str(<<end>>), NaN) >>

HeaderCalls ==
    { ExtractCall(<<HeaderPage(w, m[1], m[2], h1, h2)>>, m[1], m[2], hrc, m[3]) :
        w \in 1..HeaderMaxWidth,
        m \in {<<START_2A, END_2A, "Table 2(A)">>, <<START_2C, END_2C, "Table 2(C)">>,
               <<START_2A, END_2A, "Table X">>},
        h1 \in HeaderCells, h2 \in HeaderCells, hrc \in {1, 2} }

InitHeader ==
    /\ fn = "extract_subtable_by_markers"
    /\ inp \in HeaderCalls
    /\ out = Pending
    /\ done = FALSE
    /\ ProgramOff

SpecHeader == InitHeader /\ [][NextExtract]_vars

\* C2: the column names put on the data rows are as many as the data
\* columns: a shorter list (the fixed list of Table 2(A) or 2(C), one raw
\* header row, or the generic merge) is padded with Unnamed_Col_{i} for i
\* from its length to the width less one, a longer one is cut to its first
\* names, and the names it had are kept in place.
C2_HeaderLengthIsWidth ==
    (fn = "extract_subtable_by_markers" /\ done /\ out.named) =>
        LET w == FrameWidth(out.raw_sub_df)
            k == Len(out.raw_columns)
        IN /\ Len(out.new_columns) = w
           /\ \A i \in 1..w :
                 out.new_columns[i] =
                    IF i <= k THEN out.raw_columns[i]
                    ELSE <<"Unnamed_Col_" \o ToString(i - 1)>>

\* C2 witness: the fixed list of Table 2(A) was padded for a wider span
C2_Padded ==
    /\ fn = "extract_subtable_by_markers" /\ done /\ out.named
    /\ inp.name = "Table 2(A)" /\ inp.hrc = 2
    /\ Len(out.raw_columns) = 14
    /\ Len(out.new_columns) = 16
    /\ out.new_columns[16] = <<"Unnamed_Col_15">>

----------------------------------------------------------------------------
(* Harness for the pruning of a located span (lines 135-142 after 194-198): *)
(* a Table 2(A) page whose data rows range over blank and filled cells.     *)

MaxPruneRows == 3
PruneWidth == 2

PruneCells == {NaN, Str(<<" ">>), Str(<<"x">>)}

PruneCalls ==
    { ExtractCall(<< <<Filled(PruneWidth, Str(<<START_2A>>), NaN),
                       Filled(PruneWidth, Str(<<"h">>), Str(<<"h">>)),
                       Filled(PruneWidth, Str(<<"h">>), Str(<<"h">>))>> \o data >>,
                  START_2A, END_2A, 2, "Table 2(A)") :
        data \in UNION {[1..n -> [1..PruneWidth -> PruneCells]] : n \in 1..MaxPruneRows} }

InitPrune ==
    /\ fn = "extract_subtable_by_markers"
    /\ inp \in PruneCalls
    /\ out = Pending
    /\ done = FALSE
    /\ ProgramOff

SpecPrune == InitPrune /\ [][NextExtract]_vars

\* C9: the materialized table of a located span has no row whose cells are
\* all blank (NaN, or empty or whitespace-only text) and no column whose
\* remaining cells are all blank, and keeps every other row and column with
\* its name, in order.
C9_BlankRowsAndColumnsPruned ==
    (fn = "extract_subtable_by_markers" /\ done /\ out.named) =>
        LET Blank(c) == c.k \in {"nan", "none"} \/ (c.k = "str" /\ Strip(c.v) = <<>>)
            data == ILocSlice(out.raw_sub_df, 1 + inp.hrc, FrameLen(out.raw_sub_df)).rows
            keepR == Ascending({r \in DOMAIN data : \E c \in DOMAIN data[r] : ~Blank(data[r][c])})
            keepC == Ascending({c \in 1..FrameWidth(out.raw_sub_df) :
                                  \E i \in DOMAIN keepR : ~Blank(data[keepR[i]][c])})
        IN /\ out.table.rows = [i \in DOMAIN keepR |->
                                   [j \in DOMAIN keepC |-> data[keepR[i]][keepC[j]]]]
           /\ out.table.columns = [j \in DOMAIN keepC |-> out.new_columns[keepC[j]]]

----------------------------------------------------------------------------
(* Harness for the generic two-row merge (lines 107-122): a page of a table *)
(* that is neither Table 2(A) nor Table 2(C), its two header rows ranging   *)
(* over missing, blank and filled cells.                                    *)

MergeWidth == 2

MergeCells == {NaN, Str(<<" ">>), Str(<<"h">>), Str(<<"h", "g">>), Str(<<"g">>)}

MergeCalls ==
    { ExtractCall(<< << Filled(MergeWidth, Str(<<START_2A>>), NaN),
                        top, bottom,
                        Filled(MergeWidth, Str(<<"D", "L">>), Str(<<"1">>)),
                        Filled(MergeWidth, Str(<<"U", "P">>), Str(<<"2">>)) >> >>,
                  START_2A, END_2A, 2, "Table X") :
        top \in [1..MergeWidth -> MergeCells], bottom \in [1..MergeWidth -> MergeCells] }

InitMerge ==
    /\ fn = "extract_subtable_by_markers"
    /\ inp \in MergeCalls
    /\ out = Pending
    /\ done = FALSE
    /\ ProgramOff

SpecMerge == InitMerge /\ [][NextExtract]_vars

\* C12: in the generic two-row merge the name of a column, with parent the
\* cell of the first header row and child that of the second, is
\* Unnamed_{index} when both are blank or missing, the parent when only the
\* child is, the child when only the parent is, the child alone when it
\* starts with the parent, and otherwise "{parent} {child}".
C12_GenericMerge ==
    (fn = "extract_subtable_by_markers" /\ done /\ out.named) =>
        LET Blank(c) == c.k \in {"nan", "none"} \/ (c.k = "str" /\ Strip(c.v) = <<>>)
            Text(c) == Strip(ReplaceNewline(c.v))
            parent(c) == out.raw_sub_df.rows[2][c]
            child(c) == out.raw_sub_df.rows[3][c]
        IN \A c \in 1..FrameWidth(out.raw_sub_df) :
              out.raw_columns[c] =
                 IF Blank(parent(c)) /\ Blank(child(c)) THEN <<"Unnamed_" \o ToString(c - 1)>>
                 ELSE IF Blank(child(c)) THEN Text(parent(c))
                 ELSE IF Blank(parent(c)) THEN Text(child(c))
                 ELSE IF StartsWith(Text(child(c)), Text(parent(c))) THEN Text(child(c))
                 ELSE Text(parent(c)) \o <<" ">> \o Text(child(c))

----------------------------------------------------------------------------
(* Harness for a span shorter than its header (lines 60-62 and 145-146): a  *)
(* page with at most one row ahead of the title row and fewer rows after it *)
(* than header_row_count, the span ending at the end marker or at the end   *)
(* of the grid.                                                             *)

ShortWidth == 2

ShortCells == {NaN, Str(<<" ">>), Str(<<"x">>)}

ShortPages ==
    UNION { { ahead \o <<Filled(w, Str(<<START_2A>>), NaN)>> \o after \o tail :
                ahead \in {<<>>, <<Filled(w, Str(<<"x">>), NaN)>>},
                after \in UNION {[1..n -> [1..w -> ShortCells]] : n \in 0..1},
                tail \in {<<>>, <<Filled(w, Str(<<END_2A>>), Str(<<"x">>))>>} } :
            w \in 1..ShortWidth }

ShortCalls ==
    { ExtractCall(<<page>>, START_2A, END_2A, hrc, name) :
        page \in ShortPages, hrc \in {1, 2},
        name \in {"Table 2(A)", "Table 2(C)", "Table X"} }

InitShort ==
    /\ fn = "extract_subtable_by_markers"
    /\ inp \in ShortCalls
    /\ out = Pending
    /\ done = FALSE
    /\ ProgramOff

SpecShort == InitShort /\ [][NextExtract]_vars

\* C14: for a span of fewer than 1 + header_row_count rows the method
\* returns a table, not None: every row after the title row, under the
\* positional column labels of the grid, no name of a fixed list or of a
\* header row put on them, and without the columns that are missing in all
\* of these rows.
C14_ShortSpanIsData ==
    (fn = "extract_subtable_by_markers" /\ done) =>
        LET grid == PipelineGrid(inp.tables)
            start_idx == StartIdx(grid, inp.start)
            span == RawSubDf(grid, start_idx, EndIdx(grid, start_idx, inp.end))
            rows == SubSeq(span.rows, 2, FrameLen(span))
            keep == Ascending({c \in 1..FrameWidth(span) :
                                 \E r \in DOMAIN rows : rows[r][c].k # "nan"})
        IN (start_idx # -1 /\ FrameLen(span) < 1 + inp.hrc)
           => /\ out.found
              /\ ~out.named
              /\ out.table.rows = [r \in DOMAIN rows |-> [j \in DOMAIN keep |-> rows[r][keep[j]]]]
              /\ out.table.columns = [j \in DOMAIN keep |-> IntLabel(keep[j] - 1)]

\* C14 witness: with header_row_count 2 the one row after the title row of
\* Table 2(A) came back as data, under the label 0, its missing column gone
C14_HeaderRowAsData ==
    /\ fn = "extract_subtable_by_markers" /\ done
    /\ inp.hrc = 2 /\ inp.name = "Table 2(A)"
    /\ out.found /\ ~out.named
    /\ FrameLen(out.raw_sub_df) = 2
    /\ out.table.rows = << <<Str(<<"x">>)>> >>
    /\ out.table.columns = <<IntLabel(0)>>
    /\ FrameWidth(out.raw_sub_df) = 2

====
